---- MODULE Spec2Model ----
(***************************************************************************)
(* Object model of cirq_core::ops: identifiers (QId, QubitAsQId), gates    *)
(* (QIdShape, Gate::validate_args), operations (GateOperation) and the tag *)
(* wrapper (TaggedOperation).  Every value is immutable; every method is a *)
(* pure function of its receiver and arguments, modelled as an operator.   *)
(* The state machines below hold one value "in hand" and apply one method  *)
(* per step, recording the method, its argument and its return value.      *)
(***************************************************************************)
EXTENDS Integers, Sequences, FiniteSets, TLC

(* -------------------------------- bounds -------------------------------- *)

\* Largest dimension drawn for a qubit, a shape slot or a dimension argument.
MaxDim == 2

\* Longest qubit list and longest gate shape drawn.
MaxQubits == 2

\* Longest tag list drawn.
MaxTags == 2

\* Deepest nesting of QubitAsQId adapters built by with_dimension.
MaxNest == 2

(* -------------------------------- values -------------------------------- *)

\* Result<(), Error> / Result<T, Error>
OkUnit == [tag |-> "Ok"]

Ok(v) == [tag |-> "Ok", value |-> v]

Err(e) == [tag |-> "Err", error |-> e]

IsOk(r) == r.tag = "Ok"

\* Option<Box<dyn Gate>>
None == [some |-> FALSE]

Some(v) == [some |-> TRUE, value |-> v]

\* The two error messages of the crate (anyhow errors told apart by message).
InvalidDimension == "Wrong qid dimension. Expected a positive integer"

ApplicationError == "The gate can't be applied to qubits"

\* A user-supplied implementor of QId: own comparison key, own dimension.
BaseQubit(k, d) == [kind |-> "base", comparison_key |-> k, dimension |-> d]

Names == {"a", "b", "c"}

BaseQubits == {BaseQubit(k, d) : k \in Names, d \in 1..MaxDim}

\* u64 dimension arguments, 0 included.
Dims == 0..MaxDim

(* ------------------------- QId / QubitAsQId ----------------------------- *)

\* QId::comparison_key: the stored key of the implementor.
comparison_key(self) == self.comparison_key

\* QId::dimension
dimension(self) == self.dimension

\* validate_dimension rejecting dimension 1 as well (bound off by one)
validate_dimension_m(self, d) ==
    IF d <= 1 THEN Err(InvalidDimension) ELSE OkUnit

\* QId::validate_dimension for QubitAsQId
validate_dimension(self, d) ==
    IF d < 1 THEN Err(InvalidDimension) ELSE OkUnit

\* QubitAsQId::new: build the value, validate, return it or the error.
QubitAsQId_new(qubit, d) ==
    LET q == [kind |-> "adapter", comparison_key |-> "",
              qubit |-> qubit, dimension |-> d]
        v == validate_dimension(q, d)
    IN  IF IsOk(v) THEN Ok(q) ELSE v

\* QubitAsQId::with_dimension
with_dimension(self, d) ==
    IF self.dimension = d THEN Ok(self) ELSE QubitAsQId_new(self, d)

\* PartialEq for QubitAsQId
QubitAsQId_eq(self, other) == self.comparison_key = other.comparison_key

\* Number of adapters stacked on the base qubit.
RECURSIVE Nest(_)
Nest(q) == IF q.kind = "base" THEN 0 ELSE 1 + Nest(q.qubit)

(* --------------------------- QIdShape / Gate ---------------------------- *)

\* A user-supplied gate: it carries its shape, one dimension per operand slot.
UserGate(shape) == [kind |-> "gate", shape |-> shape]

\* QIdShape::qid_shape of a user gate
qid_shape(self) == self.shape

\* The loop stopping one slot early (range 0..len-1)
RECURSIVE validate_slots_m(_, _, _)
validate_slots_m(shape, qubits, i) ==
    IF i >= Len(qubits) THEN OkUnit
    ELSE IF shape[i] # dimension(qubits[i]) THEN Err(ApplicationError)
    ELSE validate_slots_m(shape, qubits, i + 1)

\* The loop of Gate::validate_args, slot i onwards (slots counted from 1).
RECURSIVE validate_slots(_, _, _)
validate_slots(shape, qubits, i) ==
    IF i > Len(qubits) THEN OkUnit
    ELSE IF shape[i] # dimension(qubits[i]) THEN Err(ApplicationError)
    ELSE validate_slots(shape, qubits, i + 1)

\* Gate::validate_args, the default body
validate_args(self, qubits) ==
    IF Len(qubits) # Len(qid_shape(self)) THEN Err(ApplicationError)
    ELSE validate_slots(qid_shape(self), qubits, 1)

(* --------------------- TaggedOperation / GateOperation ------------------ *)

\* A wrapper that merges the tags its sub-operation already carries
TaggedOperation_new_m(sub_operation, new_tags) ==
    [kind |-> "TaggedOperation", sub_operation |-> sub_operation,
     tags |-> IF sub_operation.kind = "TaggedOperation"
              THEN sub_operation.tags \o new_tags ELSE new_tags]

\* TaggedOperation::new
TaggedOperation_new(sub_operation, new_tags) ==
    [kind |-> "TaggedOperation", sub_operation |-> sub_operation, tags |-> new_tags]

\* GateOperation::new
GateOperation_new(gate, qubits) ==
    [kind |-> "GateOperation", gate |-> gate, qubits |-> qubits]

\* GateOperation::with_gate
GateOperation_with_gate(self, new_gate) ==
    [kind |-> "GateOperation", gate |-> new_gate, qubits |-> self.qubits]

\* QIdShape for GateOperation
GateOperation_qid_shape(self) == qid_shape(self.gate)

\* Operation::qubits for GateOperation
GateOperation_qubits(self) == self.qubits

\* with_qubits keeping the old qubit list
GateOperation_with_qubits_m(self, new_qubits) ==
    GateOperation_new(self.gate, self.qubits)

\* Operation::with_qubits for GateOperation
GateOperation_with_qubits(self, new_qubits) ==
    GateOperation_new(self.gate, new_qubits)

\* Operation::tags for GateOperation
GateOperation_tags(self) == <<>>

\* Operation::untagged for GateOperation
GateOperation_untagged(self) == self

\* with_tags wrapping a binding that lost its qubits
GateOperation_with_tags_m(self, new_tags) ==
    TaggedOperation_new(GateOperation_new(self.gate, <<>>), new_tags)

\* Operation::with_tags for GateOperation
GateOperation_with_tags(self, new_tags) == TaggedOperation_new(self, new_tags)

\* Operation::gate: the trait's default body, which GateOperation does not override.
Operation_gate(self) == None

\* Calls through Box<dyn Operation>; GateOperation is the one implementor.
Operation_qubits(self) == GateOperation_qubits(self)

Operation_with_qubits(self, new_qubits) == GateOperation_with_qubits(self, new_qubits)

\* TaggedOperation::qubits
TaggedOperation_qubits(self) == Operation_qubits(self.sub_operation)

\* TaggedOperation::gate
TaggedOperation_gate(self) == Operation_gate(self.sub_operation)

\* with_qubits rewrapping without the tags
TaggedOperation_with_qubits_m(self, new_qubits) ==
    TaggedOperation_new(Operation_with_qubits(self.sub_operation, new_qubits), <<>>)

\* TaggedOperation::with_qubits
TaggedOperation_with_qubits(self, new_qubits) ==
    TaggedOperation_new(Operation_with_qubits(self.sub_operation, new_qubits), self.tags)

\* TaggedOperation::tags
TaggedOperation_tags(self) == self.tags

\* Operation::untagged on the tag wrapper: the wrapped operation.
TaggedOperation_untagged(self) == self.sub_operation

\* Operation::with_tags on the tag wrapper: a new wrapper around this one.
TaggedOperation_with_tags(self, new_tags) == TaggedOperation_new(self, new_tags)

(* ------------------------------- inputs --------------------------------- *)

SeqsUpTo(S, n) == UNION {[1..k -> S] : k \in 0..n}

\* Qubits bound by operations: one user qubit of each dimension.
OpQubits == {BaseQubit("a", d) : d \in 1..MaxDim}

QubitLists == SeqsUpTo(OpQubits, MaxQubits)

Gates == {UserGate(s) : s \in SeqsUpTo(1..MaxDim, MaxQubits)}

\* A user-supplied Hashable tag.
Tag(h) == [hash |-> h]

Tags == {Tag(1), Tag(2)}

TagLists == SeqsUpTo(Tags, MaxTags)

(* ------------------------------ variables ------------------------------- *)

VARIABLES
    qid,    \* identifier state machine: Result<QubitAsQId, Error> in hand
    op,     \* operation state machines: the operation in hand
    call,   \* name of the last method applied
    arg,    \* its arguments
    ret     \* its return value, for methods that do not replace the value in hand

vars == <<qid, op, call, arg, ret>>

NoOp == [kind |-> "none"]

NoQId == [tag |-> "none"]

NoRet == [tag |-> "none"]

(* ----------------------- identifier state machine ----------------------- *)

QIdInit ==
    /\ qid = QubitAsQId_new(BaseQubit("a", 2), 2)
    /\ arg = [none |-> TRUE]
    /\ call = "init"
    /\ ret = NoRet
    /\ op = NoOp

\* QubitAsQId::new(qubit, d) on a user qubit
New(q, d) ==
    /\ qid' = QubitAsQId_new(q, d)
    /\ call' = "QubitAsQId::new"
    /\ arg' = [qubit |-> q, dimension |-> d]
    /\ ret' = NoRet
    /\ UNCHANGED op

\* a.with_dimension(d) on the adapter in hand
WithDimension(d) ==
    /\ IsOk(qid)
    /\ (d # qid.value.dimension) => Nest(qid.value) < MaxNest
    /\ qid' = with_dimension(qid.value, d)
    /\ call' = "with_dimension"
    /\ arg' = [dimension |-> d]
    /\ ret' = NoRet
    /\ UNCHANGED op

\* a.validate_dimension(d) on the adapter in hand
ValidateDimension(d) ==
    /\ IsOk(qid)
    /\ ret' = validate_dimension(qid.value, d)
    /\ call' = "validate_dimension"
    /\ arg' = [dimension |-> d]
    /\ UNCHANGED <<qid, op>>

QIdNext ==
    \/ \E q \in BaseQubits, d \in Dims : New(q, d)
    \/ \E d \in Dims : WithDimension(d)
    \/ \E d \in Dims : ValidateDimension(d)

SpecQId == QIdInit /\ [][QIdNext]_vars

(* ------------------------ operation state machine ----------------------- *)

\* Nothing is built yet.  A run builds one binding with GateOperation::new
\* and derives every later value from the value in hand.
OpInit ==
    /\ op = NoOp
    /\ call = "init"
    /\ arg = [none |-> TRUE]
    /\ ret = NoRet
    /\ qid = NoQId

\* GateOperation::new(gate, qubits)
NewOp(g, q) ==
    /\ op = NoOp
    /\ op' = GateOperation_new(g, q)
    /\ call' = "GateOperation::new"
    /\ arg' = [gate |-> g, qubits |-> q]
    /\ ret' = NoRet
    /\ UNCHANGED qid

\* op.with_gate(new_gate)
WithGate(g) ==
    /\ op.kind = "GateOperation"
    /\ op' = GateOperation_with_gate(op, g)
    /\ call' = "with_gate"
    /\ arg' = [gate |-> g]
    /\ ret' = NoRet
    /\ UNCHANGED qid

\* op.with_qubits(new_qubits)
WithQubits(q) ==
    /\ op.kind = "GateOperation"
    /\ op' = GateOperation_with_qubits(op, q)
    /\ call' = "with_qubits"
    /\ arg' = [qubits |-> q]
    /\ ret' = NoRet
    /\ UNCHANGED qid

\* op's gate .validate_args(qubits)
ValidateArgs(q) ==
    /\ op.kind = "GateOperation"
    /\ ret' = validate_args(op.gate, q)
    /\ call' = "validate_args"
    /\ arg' = [qubits |-> q]
    /\ UNCHANGED <<op, qid>>

OpNext ==
    \/ \E g \in Gates, q \in QubitLists : NewOp(g, q)
    \/ \E g \in Gates : WithGate(g)
    \/ \E q \in QubitLists : WithQubits(q)
    \/ \E q \in QubitLists : ValidateArgs(q)

SpecOp == OpInit /\ [][OpNext]_vars

(* -------------------------- tagging state machine ----------------------- *)

\* A tag wrapper whose sub-operation is a GateOperation.
IsTagged(o) == o.kind = "TaggedOperation" /\ o.sub_operation.kind = "GateOperation"

\* op.with_tags(new_tags) on a GateOperation; arg keeps the receiver too.
WithTags(t) ==
    /\ op.kind = "GateOperation"
    /\ op' = GateOperation_with_tags(op, t)
    /\ call' = "with_tags"
    /\ arg' = [self |-> op, tags |-> t]
    /\ ret' = NoRet
    /\ UNCHANGED qid

\* op.untagged() on a GateOperation
Untagged ==
    /\ op.kind = "GateOperation"
    /\ op' = GateOperation_untagged(op)
    /\ call' = "untagged"
    /\ arg' = [none |-> TRUE]
    /\ ret' = NoRet
    /\ UNCHANGED qid

\* top.with_qubits(new_qubits) on a tag wrapper
TaggedWithQubits(q) ==
    /\ IsTagged(op)
    /\ op' = TaggedOperation_with_qubits(op, q)
    /\ call' = "TaggedOperation::with_qubits"
    /\ arg' = [qubits |-> q]
    /\ ret' = NoRet
    /\ UNCHANGED qid

\* top.untagged() on a tag wrapper
TaggedUntagged ==
    /\ IsTagged(op)
    /\ op' = TaggedOperation_untagged(op)
    /\ call' = "TaggedOperation::untagged"
    /\ arg' = [none |-> TRUE]
    /\ ret' = NoRet
    /\ UNCHANGED qid

\* top.with_tags(new_tags) on a tag wrapper
TaggedWithTags(t) ==
    /\ IsTagged(op)
    /\ op' = TaggedOperation_with_tags(op, t)
    /\ call' = "TaggedOperation::with_tags"
    /\ arg' = [tags |-> t]
    /\ ret' = NoRet
    /\ UNCHANGED qid

TagNext ==
    \/ \E g \in Gates, q \in QubitLists : NewOp(g, q)
    \/ \E t \in TagLists : WithTags(t)
    \/ Untagged
    \/ \E q \in QubitLists : TaggedWithQubits(q)
    \/ TaggedUntagged
    \/ \E t \in TagLists : TaggedWithTags(t)

SpecTag == OpInit /\ [][TagNext]_vars

(* -------------------------------- claims -------------------------------- *)

\* q matches shape s: same length and the same dimension in every slot.
Matches(s, q) ==
    /\ Len(q) = Len(s)
    /\ \A i \in 1..Len(s) : dimension(q[i]) = s[i]

\* C1: the default validate_args(q) of a gate with shape s succeeds if and
\* only if len(q) = len(s) and q[i].dimension() = s[i] for every slot i; in
\* every other case it returns the application error.
C1_ValidateArgsIff ==
    (call = "validate_args") =>
        /\ IsOk(ret) <=> Matches(qid_shape(op.gate), arg.qubits)
        /\ ~Matches(qid_shape(op.gate), arg.qubits) => ret = Err(ApplicationError)

C1_Witness ==
    /\ call = "validate_args"
    /\ IsOk(ret)
    /\ Len(arg.qubits) = 2
    /\ arg.qubits[1] # arg.qubits[2]

\* C2: every GateOperation built by new, with_gate and with_qubits holds a
\* qubit list that passes its gate's validate_args.
C2_AlwaysValidated ==
    (op.kind = "GateOperation") => IsOk(validate_args(op.gate, op.qubits))

\* C3: op.with_gate(gate2).qubits() equals op.qubits() in the same order and
\* op.with_gate(gate2).gate() returns gate2.
C3_WithGate ==
    [][(call' = "with_gate") =>
          /\ Operation_qubits(op') = Operation_qubits(op)
          /\ Operation_gate(op') = Some(arg'.gate)]_vars

\* C4: op.with_qubits(q2).qubits() equals q2 element by element in the same
\* order, and op.with_qubits(q2).gate() equals op.gate() (the gate held by
\* the binding is the same one too).
C4_WithQubits ==
    [][(call' = "with_qubits") =>
          /\ Operation_qubits(op') = arg'.qubits
          /\ Operation_gate(op') = Operation_gate(op)
          /\ op'.gate = op.gate]_vars

C4_Witness ==
    /\ call = "with_qubits"
    /\ Len(Operation_qubits(op)) = 2
    /\ Operation_qubits(op)[1] # Operation_qubits(op)[2]
    /\ Len(qid_shape(op.gate)) = 1

RECURSIVE DimsPositive(_)
DimsPositive(q) ==
    q.kind = "adapter" => (q.dimension >= 1 /\ DimsPositive(q.qubit))

\* C7: validate_dimension(d) fails with InvalidDimension for every d < 1 and
\* succeeds for every d >= 1 on whatever instance; QubitAsQId::new(q, d)
\* fails exactly when d < 1, no adapter of dimension < 1 exists, and a built
\* adapter reports dimension() = d.
C7_DimensionValidation ==
    /\ (call = "validate_dimension") =>
          ret = (IF arg.dimension < 1 THEN Err(InvalidDimension) ELSE OkUnit)
    /\ (call = "QubitAsQId::new") =>
          IF arg.dimension < 1
          THEN qid = Err(InvalidDimension)
          ELSE IsOk(qid) /\ dimension(qid.value) = arg.dimension
    /\ IsOk(qid) => DimsPositive(qid.value)

C7_Witness ==
    /\ call = "QubitAsQId::new"
    /\ arg.dimension = 0
    /\ qid = Err(InvalidDimension)

\* C8: two adapters of the same qubit at different dimensions have different
\* comparison keys and do not compare equal.
C8_KeyTellsDimension ==
    [][(/\ call' = "QubitAsQId::new"
        /\ IsOk(qid) /\ IsOk(qid')
        /\ qid.value.qubit = qid'.value.qubit
        /\ dimension(qid.value) # dimension(qid'.value)) =>
          /\ comparison_key(qid'.value) # comparison_key(qid.value)
          /\ ~QubitAsQId_eq(qid'.value, qid.value)]_vars

\* C9: top.with_qubits(q2) keeps top's tags exactly, wraps
\* top.sub_operation.with_qubits(q2), and reports q2 as its qubits.
C9_TaggedWithQubits ==
    [][(call' = "TaggedOperation::with_qubits") =>
          /\ TaggedOperation_tags(op') = TaggedOperation_tags(op)
          /\ op'.sub_operation = Operation_with_qubits(op.sub_operation, arg'.qubits)
          /\ TaggedOperation_qubits(op') = arg'.qubits]_vars

C9_Witness ==
    /\ call = "TaggedOperation::with_qubits"
    /\ Len(TaggedOperation_tags(op)) = 2
    /\ Len(TaggedOperation_qubits(op)) = 2
    /\ Len(qid_shape(op.sub_operation.gate)) = 0

\* C10: a.with_dimension(d) returns a unchanged when d is a's dimension;
\* otherwise it fails with InvalidDimension when d < 1 and else returns an
\* adapter of dimension d that wraps the qubit a wraps, not a itself.
C10_WithDimension ==
    [][(call' = "with_dimension") =>
          IF arg'.dimension = dimension(qid.value) THEN qid' = qid
          ELSE IF arg'.dimension < 1 THEN qid' = Err(InvalidDimension)
          ELSE /\ IsOk(qid')
               /\ dimension(qid'.value) = arg'.dimension
               /\ qid'.value.qubit = qid.value.qubit]_vars

====
